---- MODULE Spec2Model ----
(***************************************************************************)
(* Model of scrape_chat_langchain (playwright_scraper.py) and of the       *)
(* ChatLangchainResponse record it returns (response_format.py).           *)
(*                                                                         *)
(* One invocation is a sequential coroutine; every await of the function   *)
(* is one step (pc).  The browser, the page and the clipboard are the      *)
(* environment: each step either completes or raises, and what the page    *)
(* shows is drawn from small sets at the step that observes it.            *)
(* Strings are sequences of one-character strings, so that strip(),        *)
(* replace(/Copy/g, '') and the error prefix are computed, not assumed.    *)
(***************************************************************************)
EXTENDS Integers, Sequences, FiniteSets, TLC

\* ---------------------------------------------------------------- bounds
MaxPieces == 2
MaxElems == 2
MaxDepth == 3

\* --------------------------------------------------------------- strings
Copy == <<"C", "o", "p", "y">>

Whitespace == {" ", "\n"}

Pieces == {<<"a">>, <<" ">>, Copy, <<"C", "o">>, <<"p", "y">>}

RECURSIVE TextsUpTo(_)
TextsUpTo(n) ==
    IF n = 0 THEN {<<>>}
    ELSE LET S == TextsUpTo(n - 1) IN S \cup {s \o p : s \in S, p \in Pieces}

\* what the chat site can put on the clipboard / what a clipboard can hold
Texts == TextsUpTo(MaxPieces)

\* visible text of an element that contains the Copy button
ContainerTexts ==
    {a \o Copy \o b : a \in TextsUpTo(MaxPieces - 1), b \in {<<>>, <<" ">>, <<"\n">>}}

None == <<>>

Some(x) == <<x>>

RECURSIVE LStrip(_)
LStrip(s) ==
    IF s # <<>> /\ Head(s) \in Whitespace THEN LStrip(Tail(s)) ELSE s

RECURSIVE RStrip(_)
RStrip(s) ==
    IF s # <<>> /\ s[Len(s)] \in Whitespace
    THEN RStrip(SubSeq(s, 1, Len(s) - 1)) ELSE s

\* str.strip() / String.prototype.trim()
Strip(s) == RStrip(LStrip(s))

StartsWith(s, p) == Len(p) <= Len(s) /\ SubSeq(s, 1, Len(p)) = p

\* text.replace(/Copy/g, ''): one left-to-right pass, matches do not overlap
RECURSIVE ReplaceCopy(_)
ReplaceCopy(s) ==
    IF s = <<>> THEN <<>>
    ELSE IF StartsWith(s, Copy) THEN ReplaceCopy(SubSeq(s, 5, Len(s)))
    ELSE <<Head(s)>> \o ReplaceCopy(Tail(s))

\* "Error scraping chat.langchain.com: "
ErrorPrefix ==
    <<"E", "r", "r", "o", "r", " ", "s", "c", "r", "a", "p", "i", "n", "g", " ",
      "c", "h", "a", "t", ".", "l", "a", "n", "g", "c", "h", "a", "i", "n", ".",
      "c", "o", "m", ":", " ">>

\* "Error scraping"
ErrorScraping == SubSeq(ErrorPrefix, 1, 14)

CHAT_LANGCHAIN_URL == "https://chat.langchain.com"

\* page.url after the navigation: the URL as given, as the browser writes it,
\* or the one a redirect led to
PageUrls ==
    {CHAT_LANGCHAIN_URL, "https://chat.langchain.com/",
     "https://chat.langchain.com/chat"}

\* ------------------------------------------------------------- requests
Prompts == {<<"a">>, Copy}

Timeouts == {1000, 30000}

\* time (ms) after which the page shows the Copy button; 40000: not in budget
CopyDelays == {0, 1500, 40000}

Requests == [prompt : Prompts, headless : BOOLEAN, timeout : Timeouts]

\* ----------------------------------------------------------- exceptions
NoExc == [type |-> "none", msg |-> <<>>]

\* str(e) of an exception raised by the browser automation library
Msgs == {<<>>, <<"m">>}

PlaywrightTimeoutError(m) == [type |-> "TimeoutError", msg |-> m]

PlaywrightError(m) == [type |-> "Error", msg |-> m]

\* 'NoneType' object has no attribute 'strip'
AttributeError == [type |-> "AttributeError", msg |-> <<"n">>]

CancelledError == [type |-> "CancelledError", msg |-> <<>>]

\* "except Exception" catches it (CancelledError derives from BaseException)
IsException(e) == e.type \in {"TimeoutError", "Error", "AttributeError"}

\* ------------------------------------------------------------- results
\* ChatLangchainResponse(text=..., raw_html=..., message_count=..., metadata=...)
ChatLangchainResponse(text, raw, count, meta) ==
    [text |-> text, raw_html |-> raw, message_count |-> count,
     metadata |-> meta, source |-> "chat.langchain.com"]

\* field defaults of ChatLangchainResponse
DefaultMessageCount == 1

DefaultRawHtml == None

\* variant: the metadata reports the default timeout, not the request's
SuccessMetadataDefaultTimeout(url, req) ==
    [url |-> url, headless |-> req.headless, timeout |-> 30000]

SuccessMetadata(url, req) ==
    [url |-> url, headless |-> req.headless, timeout |-> req.timeout]

SuccessResult(text, raw, count, url, req) ==
    ChatLangchainResponse(Strip(text), raw, count, SuccessMetadata(url, req))

\* variant: the error class is not recorded
FailureMetadataNoType(e) == [error |-> e.msg]

FailureMetadata(e) == [error |-> e.msg, error_type |-> e.type]

FailureResult(e) ==
    ChatLangchainResponse(ErrorPrefix \o e.msg, DefaultRawHtml,
                          DefaultMessageCount, FailureMetadata(e))

\* variant: no default when nothing is found
MessageCountNoDefault(n) == n

\* message_count = len(...); if message_count == 0: message_count = 1
MessageCount(n) == IF n = 0 THEN 1 ELSE n

NoResult == <<>>

\* ------------------------------------------------------------ the page
\* The Copy button and its ancestors, innermost first: cls[1] is the button
\* itself, cls[2] its parent, ...; cls[i] says whether the element's class
\* matches [class*="message"], [class*="response"], [class*="assistant"].
\* hasButton: some <button> has textContent.trim() === 'Copy'.
Chains(n) == [1..n -> BOOLEAN]

Doms == [hasButton : BOOLEAN, cls : UNION {Chains(n) : n \in 3..(MaxDepth + 1)}]

\* copyButton.closest(selector): the element itself or its nearest ancestor
Closest(cls) ==
    IF \E i \in 1..Len(cls) : cls[i]
    THEN CHOOSE i \in 1..Len(cls) : cls[i] /\ \A j \in 1..(i - 1) : ~cls[j]
    ELSE 0

\* variant: without a match, two levels up from the button's parent
FallbackContainerFromParent(dom) ==
    IF ~dom.hasButton THEN 0
    ELSE IF Closest(dom.cls) # 0 THEN Closest(dom.cls)
    ELSE IF Len(dom.cls) >= 4 THEN 4
    ELSE 0

\* index of the container the fallback takes its text from; 0: none
FallbackContainer(dom) ==
    IF ~dom.hasButton THEN 0
    ELSE IF Closest(dom.cls) # 0 THEN Closest(dom.cls)
    ELSE IF Len(dom.cls) >= 3 THEN 3
    ELSE 0

\* container.innerText || container.textContent; t: visible text of an
\* ancestor of the button (the button's own text is its label)
ContainerText(dom, t) ==
    LET c == FallbackContainer(dom) IN
    IF c = 0 THEN None ELSE Some(IF c = 1 THEN Copy ELSE t)

\* value returned by the fallback script
FallbackScan(dom, t) ==
    LET c == ContainerText(dom, t) IN
    IF c = None THEN None ELSE Some(Strip(ReplaceCopy(c[1])))

\* no DOM observed yet
NoDom == [hasButton |-> FALSE, cls |-> <<>>]

\* inner_html() of the last message-like element
Markups == {<<>>, <<"h">>}

\* ---------------------------------------------------------------- state
VARIABLES
    pc,            \* next step of the coroutine
    request,       \* prompt, headless, timeout
    browser,       \* the local variable browser: "None" or "Browser"
    closeCalls,    \* number of browser.close() calls
    textbox,       \* content of the prompt textbox
    clipboard,     \* clipboard of the browsing context
    clipRead,      \* None, or Some(value returned by clipboard.readText())
    response_text, \* None (unset or null), or Some(text)
    fallbackRan,   \* the fallback script was evaluated
    container,     \* index of the element the fallback chose (0: none)
    closestHit,    \* the fallback's closest() call found an element
    likeCount,     \* elements found by the raw-markup query (-1: not run)
    raw_html,      \* None or Some(markup)
    message_count, \* local variable message_count (0: not yet set)
    idleTimedOut,  \* the secondary network-idle wait timed out
    exc,           \* exception in flight
    failedAt,      \* step that raised last ("none": no step raised)
    failure,       \* the exception raised last
    cancelled,     \* the caller cancelled the task
    result,        \* value of the return statement that ran last
    outcome,       \* "running", "returned" or "raised"
    trace,         \* steps started so far, in order
    clipWriter,    \* who wrote what the clipboard holds: "before" the call,
                   \* own "clear", own "click", or the "peer"
    readFrom,      \* clipWriter at the clipboard read ("none": no read yet)
    dom,           \* the Copy button and its ancestors as the fallback saw them
    containerText, \* None, or Some(visible text of the fallback's container)
    msgFound,      \* elements found by the message-count query (-1: not run)
    probe,         \* the run records the DOM that the fallback script saw
    peerPc,        \* position of a second, concurrent invocation ("absent": none)
    peerHeadless,  \* headless argument of the second invocation
    peerBrowser,   \* browser variable of the second invocation
    peerClipboard, \* clipboard of the second invocation's browser, if its own
    peerRead,      \* text the second invocation read from the clipboard
    peerClipWriter, \* who wrote what peerClipboard holds: "before" the call,
                   \* own "clear", own "click", or the "other" invocation
    peerReadFrom   \* peerClipWriter at the second invocation's read

vars == <<pc, request, browser, closeCalls, textbox, clipboard, clipRead,
          response_text, fallbackRan, container, closestHit, likeCount, raw_html,
          message_count, idleTimedOut, exc, failedAt, failure, cancelled,
          result, outcome, trace, clipWriter, readFrom, dom, containerText, msgFound,
          probe, peerPc, peerHeadless, peerBrowser, peerClipboard, peerRead,
          peerClipWriter, peerReadFrom>>

\* state of the second invocation
peer == <<peerPc, peerHeadless, peerBrowser, peerClipboard, peerRead,
          peerClipWriter, peerReadFrom>>

\* everything but pc, exc, failedAt, failure, trace
locals == <<request, browser, closeCalls, textbox, clipboard, clipRead,
            response_text, fallbackRan, container, closestHit, likeCount, raw_html,
            message_count, idleTimedOut, cancelled, result, outcome,
            clipWriter, readFrom, dom, containerText, msgFound, probe,
            peer>>

\* content left on the clipboard by an earlier run or by the user
StaleTexts == {<<>>, <<"a">>}

\* state at the call, but for the inputs
InitLocals ==
    /\ pc = "start"
    /\ browser = "None"
    /\ closeCalls = 0
    /\ textbox = <<>>
    /\ clipRead = None
    /\ response_text = None
    /\ fallbackRan = FALSE
    /\ container = 0
    /\ closestHit = FALSE
    /\ likeCount = -1
    /\ raw_html = None
    /\ message_count = 0
    /\ idleTimedOut = FALSE
    /\ exc = NoExc
    /\ failedAt = "none"
    /\ failure = NoExc
    /\ cancelled = FALSE
    /\ result = NoResult
    /\ outcome = "running"
    /\ trace = <<>>
    /\ clipWriter = "before"
    /\ readFrom = "none"
    /\ dom = NoDom
    /\ containerText = None
    /\ msgFound = -1

\* no second invocation runs
NoPeer ==
    /\ peerPc = "absent"
    /\ peerHeadless = TRUE
    /\ peerBrowser = "None"
    /\ peerClipboard = <<>>
    /\ peerRead = None
    /\ peerClipWriter = "before"
    /\ peerReadFrom = "none"

Init ==
    /\ InitLocals
    /\ NoPeer
    /\ request \in Requests
    /\ clipboard \in StaleTexts
    /\ probe = FALSE

\* scrape_chat_langchain(prompt, headless=True, timeout=30000), as run_app
\* calls it
RunAppRequest == [prompt |-> <<"a">>, headless |-> TRUE, timeout |-> 30000]

\* the call of run_app on a clean clipboard, recording what the fallback saw
InitProbe ==
    /\ InitLocals
    /\ NoPeer
    /\ request = RunAppRequest
    /\ clipboard = <<>>
    /\ probe = TRUE

\* ---------------------------------------------------------- control flow
\* the step runs to completion and control goes on to step next
Goto(step, next) ==
    /\ pc' = next
    /\ trace' = Append(trace, step)
    /\ UNCHANGED <<exc, failedAt, failure>>

\* the step raises e: the async with block is left, then except/finally
Raise(step, e) ==
    /\ pc' = "pw_exit"
    /\ trace' = Append(trace, step)
    /\ exc' = e
    /\ failure' = e
    /\ failedAt' = step

\* an error of the automation library that is not a timeout
RaiseError(step) == \E m \in Msgs : Raise(step, PlaywrightError(m))

\* a timeout of the automation library
RaiseTimeout(step) == \E m \in Msgs : Raise(step, PlaywrightTimeoutError(m))

\* ---------------------------------------------------------------- steps
\* async with async_playwright() as p; when entering raises, the block was
\* not entered and is not left: control goes to the except clause
Start ==
    /\ pc = "start"
    /\ \/ Goto("start", "launch")
       \/ \E m \in Msgs :
             /\ pc' = "handler"
             /\ trace' = Append(trace, "start")
             /\ exc' = PlaywrightError(m)
             /\ failure' = PlaywrightError(m)
             /\ failedAt' = "start"
    /\ UNCHANGED locals

\* browser = await p.chromium.launch(headless=headless)
Launch ==
    /\ pc = "launch"
    /\ \/ Goto("launch", "new_context") /\ browser' = "Browser"
       \/ RaiseError("launch") /\ UNCHANGED browser
    /\ UNCHANGED <<clipWriter, readFrom, dom, containerText, msgFound, probe, peer,
                   request, closeCalls, textbox, clipboard, clipRead,
                   response_text, fallbackRan, container, closestHit, likeCount, raw_html,
                   message_count, idleTimedOut, cancelled, result, outcome>>

\* context = await browser.new_context(permissions=[...])
NewContext ==
    /\ pc = "new_context"
    /\ \/ Goto("new_context", "new_page")
       \/ RaiseError("new_context")
    /\ UNCHANGED locals

\* page = await context.new_page()
NewPage ==
    /\ pc = "new_page"
    /\ \/ Goto("new_page", "goto")
       \/ RaiseError("new_page")
    /\ UNCHANGED locals

\* await page.goto(CHAT_LANGCHAIN_URL, wait_until="networkidle")
Navigate ==
    /\ pc = "goto"
    /\ \/ Goto("goto", "click")
       \/ RaiseTimeout("goto")
       \/ RaiseError("goto")
    /\ UNCHANGED locals

\* await textbox.click(): waits for the textbox within the default timeout
TextboxClick ==
    /\ pc = "click"
    /\ \/ Goto("click", "fill")
       \/ RaiseTimeout("click")
       \/ RaiseError("click")
    /\ UNCHANGED locals

\* await textbox.fill(prompt)
TextboxFill ==
    /\ pc = "fill"
    /\ \/ Goto("fill", "press") /\ textbox' = request.prompt
       \/ RaiseTimeout("fill") /\ UNCHANGED textbox
       \/ RaiseError("fill") /\ UNCHANGED textbox
    /\ UNCHANGED <<clipWriter, readFrom, dom, containerText, msgFound, probe, peer,
                   request, browser, closeCalls, clipboard, clipRead,
                   response_text, fallbackRan, container, closestHit, likeCount, raw_html,
                   message_count, idleTimedOut, cancelled, result, outcome>>

\* variant: the wait for the Copy button starts right after the submission
TextboxPressNoGrace ==
    /\ pc = "press"
    /\ \/ Goto("press", "wait_copy")
       \/ RaiseTimeout("press")
       \/ RaiseError("press")
    /\ UNCHANGED locals

\* await textbox.press("Enter")
TextboxPress ==
    /\ pc = "press"
    /\ \/ Goto("press", "grace")
       \/ RaiseTimeout("press")
       \/ RaiseError("press")
    /\ UNCHANGED locals

\* await asyncio.sleep(2)
GraceDelay ==
    /\ pc = "grace"
    /\ Goto("grace", "wait_copy")
    /\ UNCHANGED locals

\* await copy_button.wait_for(state="visible", timeout=timeout)
WaitCopyButton ==
    /\ pc = "wait_copy"
    /\ \E d \in CopyDelays :
          \/ d <= request.timeout /\ Goto("wait_copy", "wait_idle")
          \/ d > request.timeout /\ RaiseTimeout("wait_copy")
          \/ RaiseError("wait_copy")
    /\ UNCHANGED locals

\* variant: the timeout of the secondary wait is not caught
WaitNetworkIdleNoCatch ==
    /\ pc = "wait_idle"
    /\ \/ Goto("wait_idle", "clip_clear") /\ UNCHANGED idleTimedOut
       \/ RaiseTimeout("wait_idle") /\ idleTimedOut' = TRUE
       \/ RaiseError("wait_idle") /\ UNCHANGED idleTimedOut
    /\ UNCHANGED <<clipWriter, readFrom, dom, containerText, msgFound, probe, peer,
                   request, browser, closeCalls, textbox, clipboard, clipRead,
                   response_text, fallbackRan, container, closestHit,
                   likeCount, raw_html, message_count, cancelled, result,
                   outcome>>

\* await page.wait_for_load_state("networkidle", timeout=timeout), inside
\* try / except PlaywrightTimeoutError
WaitNetworkIdle ==
    /\ pc = "wait_idle"
    /\ \/ Goto("wait_idle", "clip_clear") /\ UNCHANGED idleTimedOut
       \/ Goto("wait_idle", "settle") /\ idleTimedOut' = TRUE
       \/ RaiseError("wait_idle") /\ UNCHANGED idleTimedOut
    /\ UNCHANGED <<clipWriter, readFrom, dom, containerText, msgFound, probe, peer,
                   request, browser, closeCalls, textbox, clipboard, clipRead,
                   response_text, fallbackRan, container, closestHit,
                   likeCount, raw_html, message_count, cancelled, result,
                   outcome>>

\* variant: the handler of the secondary timeout sleeps and raises it again
SettleDelayReraise ==
    /\ pc = "settle"
    /\ RaiseTimeout("settle")
    /\ UNCHANGED locals

\* except PlaywrightTimeoutError: await asyncio.sleep(2)
SettleDelay ==
    /\ pc = "settle"
    /\ Goto("settle", "clip_clear")
    /\ UNCHANGED locals

\* variant: the clear leaves the clipboard as it was
ClearClipboardNoop ==
    /\ pc = "clip_clear"
    /\ \/ Goto("clip_clear", "copy_click") /\ UNCHANGED clipboard
       \/ RaiseError("clip_clear") /\ UNCHANGED clipboard
    /\ UNCHANGED <<clipWriter, readFrom, dom, containerText, msgFound, probe, peer,
                   request, browser, closeCalls, textbox, clipRead,
                   response_text, fallbackRan, container, closestHit,
                   likeCount, raw_html, message_count, idleTimedOut,
                   cancelled, result, outcome>>

\* await page.evaluate("async () => await navigator.clipboard.writeText('')")
ClearClipboard ==
    /\ pc = "clip_clear"
    /\ \/ /\ Goto("clip_clear", "copy_click")
          /\ clipboard' = <<>>
          /\ clipWriter' = "clear"
       \/ RaiseError("clip_clear") /\ UNCHANGED <<clipboard, clipWriter>>
    /\ UNCHANGED <<readFrom, dom, containerText, msgFound, probe, peer,
                   request, browser, closeCalls, textbox, clipRead,
                   response_text, fallbackRan, container, closestHit,
                   likeCount, raw_html, message_count, idleTimedOut,
                   cancelled, result, outcome>>

\* await copy_button.click(): the site copies the answer, or copies nothing
CopyClick ==
    /\ pc = "copy_click"
    /\ \/ \E t \in Texts :
             /\ Goto("copy_click", "clip_wait")
             /\ clipboard' = t
             /\ clipWriter' = "click"
       \/ Goto("copy_click", "clip_wait") /\ UNCHANGED <<clipboard, clipWriter>>
       \/ RaiseTimeout("copy_click") /\ UNCHANGED <<clipboard, clipWriter>>
       \/ RaiseError("copy_click") /\ UNCHANGED <<clipboard, clipWriter>>
    /\ UNCHANGED <<readFrom, dom, containerText, msgFound, probe, peer,
                   request, browser, closeCalls, textbox, clipRead,
                   response_text, fallbackRan, container, closestHit,
                   likeCount, raw_html, message_count, idleTimedOut,
                   cancelled, result, outcome>>

\* await page.wait_for_timeout(300)
ClipboardWait ==
    /\ pc = "clip_wait"
    /\ \/ Goto("clip_wait", "clip_read")
       \/ RaiseError("clip_wait")
    /\ UNCHANGED locals

\* response_text = await page.evaluate("... clipboard.readText()")
\* if not response_text: ...
ReadClipboard ==
    /\ pc = "clip_read"
    /\ \/ /\ Goto("clip_read", IF clipboard = <<>> THEN "fallback" ELSE "raw_query")
          /\ response_text' = Some(clipboard)
          /\ clipRead' = Some(clipboard)
          /\ readFrom' = clipWriter
       \/ RaiseError("clip_read") /\ UNCHANGED <<response_text, clipRead, readFrom>>
    /\ UNCHANGED <<clipWriter, dom, containerText, msgFound, probe, peer,
                   request, browser, closeCalls, textbox, clipboard,
                   fallbackRan, container, closestHit, likeCount, raw_html,
                   message_count, idleTimedOut, cancelled, result, outcome>>

\* response_text = await page.evaluate(""" () => { ... } """)
FallbackExtract ==
    /\ pc = "fallback"
    /\ \/ \E d \in Doms, t \in ContainerTexts :
             /\ Goto("fallback", "raw_query")
             /\ response_text' = FallbackScan(d, t)
             /\ container' = FallbackContainer(d)
             /\ closestHit' = (d.hasButton /\ Closest(d.cls) # 0)
             /\ fallbackRan' = TRUE
             /\ dom' = (IF probe THEN d ELSE NoDom)
             /\ containerText' = (IF probe THEN ContainerText(d, t) ELSE None)
       \/ /\ RaiseError("fallback")
          /\ fallbackRan' = TRUE
          /\ UNCHANGED <<response_text, container, closestHit, dom,
                         containerText>>
    /\ UNCHANGED <<clipWriter, readFrom, msgFound, probe, peer,
                   request, browser, closeCalls, textbox, clipboard, clipRead,
                   likeCount, raw_html, message_count, idleTimedOut,
                   cancelled, result, outcome>>

\* response_elements = await page.query_selector_all(...); if response_elements:
\* inside try / except Exception: pass
QueryResponseElements ==
    /\ pc = "raw_query"
    /\ \/ \E n \in 0..MaxElems :
             /\ Goto("raw_query", IF n > 0 THEN "raw_inner" ELSE "count")
             /\ likeCount' = n
       \/ Goto("raw_query", "count") /\ UNCHANGED likeCount
    /\ UNCHANGED <<clipWriter, readFrom, dom, containerText, msgFound, probe, peer,
                   request, browser, closeCalls, textbox, clipboard, clipRead,
                   response_text, fallbackRan, container, closestHit, raw_html,
                   message_count, idleTimedOut, cancelled, result, outcome>>

\* variant: inner_html() is called outside the try block
RawInnerHtmlUnguarded ==
    /\ pc = "raw_inner"
    /\ \/ \E m \in Markups : Goto("raw_inner", "count") /\ raw_html' = Some(m)
       \/ RaiseError("raw_inner") /\ UNCHANGED raw_html
    /\ UNCHANGED <<clipWriter, readFrom, dom, containerText, msgFound, probe, peer,
                   request, browser, closeCalls, textbox, clipboard, clipRead,
                   response_text, fallbackRan, container, closestHit,
                   likeCount, message_count, idleTimedOut, cancelled, result,
                   outcome>>

\* raw_html = await response_elements[-1].inner_html()
\* inside try / except Exception: pass
RawInnerHtml ==
    /\ pc = "raw_inner"
    /\ \/ \E m \in Markups : Goto("raw_inner", "count") /\ raw_html' = Some(m)
       \/ Goto("raw_inner", "count") /\ UNCHANGED raw_html
    /\ UNCHANGED <<clipWriter, readFrom, dom, containerText, msgFound, probe, peer,
                   request, browser, closeCalls, textbox, clipboard, clipRead,
                   response_text, fallbackRan, container, closestHit,
                   likeCount, message_count, idleTimedOut, cancelled, result,
                   outcome>>

\* message_count = len(await page.query_selector_all('[class*="message"]'))
\* a query of its own: the page may have changed since the raw-markup query
CountMessages ==
    /\ pc = "count"
    /\ \/ \E n \in 0..MaxElems :
             /\ Goto("count", "construct")
             /\ message_count' = MessageCount(n)
             /\ msgFound' = n
       \/ RaiseError("count") /\ UNCHANGED <<message_count, msgFound>>
    /\ UNCHANGED <<clipWriter, readFrom, dom, containerText, probe, peer,
                   request, browser, closeCalls, textbox, clipboard, clipRead,
                   response_text, fallbackRan, container, closestHit,
                   likeCount, raw_html, idleTimedOut, cancelled, result,
                   outcome>>

\* return ChatLangchainResponse(text=response_text.strip(), ...)
Construct ==
    /\ pc = "construct"
    /\ \/ /\ response_text # None
          /\ Goto("construct", "pw_exit")
          /\ \E url \in PageUrls :
                result' = SuccessResult(response_text[1], raw_html,
                                        message_count, url, request)
       \/ /\ response_text = None
          /\ Raise("construct", AttributeError)
          /\ UNCHANGED result
    /\ UNCHANGED <<clipWriter, readFrom, dom, containerText, msgFound, probe, peer,
                   request, browser, closeCalls, textbox, clipboard, clipRead,
                   response_text, fallbackRan, container, closestHit,
                   likeCount, raw_html, message_count, idleTimedOut,
                   cancelled, outcome>>

\* leaving the async with block (return value or exception in flight)
PlaywrightExit ==
    /\ pc = "pw_exit"
    /\ pc' = IF IsException(exc) THEN "handler" ELSE "finally"
    /\ trace' = Append(trace, "pw_exit")
    /\ UNCHANGED <<exc, failedAt, failure>>
    /\ UNCHANGED locals

\* except Exception as e: return ChatLangchainResponse(text=f"Error ...", ...)
Handler ==
    /\ pc = "handler"
    /\ pc' = "finally"
    /\ trace' = Append(trace, "handler")
    /\ result' = FailureResult(exc)
    /\ exc' = NoExc
    /\ UNCHANGED <<clipWriter, readFrom, dom, containerText, msgFound, probe, peer,
                   request, browser, closeCalls, textbox, clipboard, clipRead,
                   response_text, fallbackRan, container, closestHit,
                   likeCount, raw_html, message_count, idleTimedOut,
                   failedAt, failure, cancelled, outcome>>

\* variant: the browser is closed on the return paths only, not while an
\* exception is in flight
FinallyCloseOnReturnOnly ==
    /\ pc = "finally"
    /\ pc' = "done"
    /\ trace' = Append(trace, "finally")
    /\ \/ /\ browser = "None" \/ exc # NoExc
          /\ outcome' = IF exc = NoExc THEN "returned" ELSE "raised"
          /\ UNCHANGED <<closeCalls, exc, failedAt, failure, result>>
       \/ /\ browser = "Browser" /\ exc = NoExc
          /\ closeCalls' = closeCalls + 1
          /\ outcome' = "returned"
          /\ UNCHANGED <<exc, failedAt, failure, result>>
       \/ /\ browser = "Browser" /\ exc = NoExc
          /\ closeCalls' = closeCalls + 1
          /\ \E m \in Msgs : exc' = PlaywrightError(m)
          /\ failure' = exc'
          /\ failedAt' = "close"
          /\ result' = NoResult
          /\ outcome' = "raised"
    /\ UNCHANGED <<clipWriter, readFrom, dom, containerText, msgFound, probe, peer,
                   request, browser, textbox, clipboard, clipRead,
                   response_text, fallbackRan, container, closestHit,
                   likeCount, raw_html, message_count, idleTimedOut,
                   cancelled>>

\* finally: if browser: await browser.close()
Finally ==
    /\ pc = "finally"
    /\ pc' = "done"
    /\ trace' = Append(trace, "finally")
    /\ \/ /\ browser = "None"
          /\ outcome' = IF exc = NoExc THEN "returned" ELSE "raised"
          /\ UNCHANGED <<closeCalls, exc, failedAt, failure, result>>
       \/ /\ browser = "Browser"
          /\ closeCalls' = closeCalls + 1
          /\ outcome' = IF exc = NoExc THEN "returned" ELSE "raised"
          /\ UNCHANGED <<exc, failedAt, failure, result>>
       \/ /\ browser = "Browser"
          /\ closeCalls' = closeCalls + 1
          /\ \E m \in Msgs : exc' = PlaywrightError(m)
          /\ failure' = exc'
          /\ failedAt' = "close"
          /\ result' = NoResult
          /\ outcome' = "raised"
    /\ UNCHANGED <<clipWriter, readFrom, dom, containerText, msgFound, probe, peer,
                   request, browser, textbox, clipboard, clipRead,
                   response_text, fallbackRan, container, closestHit,
                   likeCount, raw_html, message_count, idleTimedOut,
                   cancelled>>

\* steps of the async with body that await
BodyAwaits ==
    {"start", "launch", "new_context", "new_page", "goto", "click", "fill",
     "press", "grace", "wait_copy", "wait_idle", "settle", "clip_clear",
     "copy_click", "clip_wait", "clip_read", "fallback", "raw_query",
     "raw_inner", "count"}

\* the caller cancels the task: CancelledError is raised at the current await
Cancel ==
    /\ ~cancelled
    /\ cancelled' = TRUE
    /\ \/ /\ pc \in BodyAwaits
          /\ pc' = (IF pc = "start" THEN "finally" ELSE "pw_exit")
          /\ UNCHANGED closeCalls
          /\ outcome' = outcome
       \/ /\ pc = "pw_exit"
          /\ pc' = "finally"
          /\ UNCHANGED closeCalls
          /\ outcome' = outcome
       \/ /\ pc = "finally"
          /\ browser = "Browser"
          /\ pc' = "done"
          /\ closeCalls' = closeCalls + 1
          /\ outcome' = "raised"
    /\ trace' = Append(trace, pc)
    /\ exc' = CancelledError
    /\ failure' = CancelledError
    /\ failedAt' = pc
    /\ result' = NoResult
    /\ fallbackRan' = (fallbackRan \/ pc = "fallback")
    /\ UNCHANGED <<clipWriter, readFrom, dom, containerText, msgFound, probe, peer,
                   request, browser, textbox, clipboard, clipRead,
                   response_text, container, closestHit,
                   likeCount, raw_html, message_count, idleTimedOut>>

Next ==
    \/ Start \/ Launch \/ NewContext \/ NewPage \/ Navigate
    \/ TextboxClick \/ TextboxFill \/ TextboxPress \/ GraceDelay
    \/ WaitCopyButton \/ WaitNetworkIdle \/ SettleDelay
    \/ ClearClipboard \/ CopyClick \/ ClipboardWait \/ ReadClipboard
    \/ FallbackExtract \/ QueryResponseElements \/ RawInnerHtml
    \/ CountMessages \/ Construct
    \/ PlaywrightExit \/ Handler \/ Finally \/ Cancel

Spec == Init /\ [][Next]_vars

\* the same invocation, with the fallback's view of the page recorded
SpecProbe == InitProbe /\ [][Next]_vars

\* ------------------------------------------------- a second invocation
\* run_eval lets two calls of run_app run interleaved (max_concurrency=2).
\* The second one is followed through the steps that touch what the two
\* could share: its browser and the clipboard. Each invocation launches a
\* browser of its own (line 41), opens its own context and page in it (lines
\* 43-44) and reaches navigator.clipboard through page.evaluate on that page
\* (lines 77, 86): clipboard is what the first invocation's page reaches,
\* peerClipboard what the second one's page reaches.

\* the answers the site gives to the second invocation
PeerAnswers == {<<"a">>, <<"p", "y">>}

\* all variables of the first invocation but the clipboard and its writer
selfButClipboard ==
    <<pc, request, browser, closeCalls, textbox, clipRead, response_text,
      fallbackRan, container, closestHit, likeCount, raw_html, message_count,
      idleTimedOut, exc, failedAt, failure, cancelled, result, outcome, trace,
      readFrom, dom, containerText, msgFound, probe>>

\* the awaited call of the second invocation raises: it leaves the async
\* with block, then except/finally
PeerRaise ==
    /\ peerPc' = "finally"
    /\ UNCHANGED <<peerBrowser, peerClipboard, peerClipWriter, peerRead,
                   peerReadFrom>>

\* browser = await p.chromium.launch(headless=headless)
PeerLaunch ==
    /\ peerPc = "launch"
    /\ \/ /\ peerPc' = "clip_clear"
          /\ peerBrowser' = "Browser"
          /\ UNCHANGED <<peerClipboard, peerClipWriter, peerRead, peerReadFrom>>
       \/ PeerRaise
    /\ UNCHANGED <<selfButClipboard, clipboard, clipWriter, peerHeadless>>

\* new_context ... wait_for_load_state, then
\* await page.evaluate("async () => await navigator.clipboard.writeText('')")
PeerClearClipboard ==
    /\ peerPc = "clip_clear"
    /\ \/ /\ peerPc' = "copy_click"
          /\ peerClipboard' = <<>>
          /\ peerClipWriter' = "clear"
          /\ UNCHANGED <<peerBrowser, peerRead, peerReadFrom>>
       \/ PeerRaise
    /\ UNCHANGED <<selfButClipboard, clipboard, clipWriter, peerHeadless>>

\* variant: the copy click of the second invocation writes the clipboard
\* that the first invocation's page reaches
PeerCopyClickOtherClipboard ==
    /\ peerPc = "copy_click"
    /\ \/ /\ \E t \in PeerAnswers : clipboard' = t
          /\ clipWriter' = "peer"
          /\ peerPc' = "clip_read"
          /\ UNCHANGED <<peerBrowser, peerClipboard, peerClipWriter, peerRead,
                         peerReadFrom>>
       \/ /\ peerPc' = "clip_read"
          /\ UNCHANGED <<clipboard, clipWriter, peerBrowser, peerClipboard,
                         peerClipWriter, peerRead, peerReadFrom>>
       \/ PeerRaise /\ UNCHANGED <<clipboard, clipWriter>>
    /\ UNCHANGED <<selfButClipboard, peerHeadless>>

\* await copy_button.click(): the site copies the answer, or copies nothing
PeerCopyClick ==
    /\ peerPc = "copy_click"
    /\ \/ /\ \E t \in PeerAnswers : peerClipboard' = t
          /\ peerClipWriter' = "click"
          /\ peerPc' = "clip_read"
          /\ UNCHANGED <<peerBrowser, peerRead, peerReadFrom>>
       \/ /\ peerPc' = "clip_read"
          /\ UNCHANGED <<peerBrowser, peerClipboard, peerClipWriter, peerRead,
                         peerReadFrom>>
       \/ PeerRaise
    /\ UNCHANGED <<selfButClipboard, clipboard, clipWriter, peerHeadless>>

\* wait_for_timeout(300), then
\* response_text = await page.evaluate("... clipboard.readText()")
PeerReadClipboard ==
    /\ peerPc = "clip_read"
    /\ \/ /\ peerPc' = "finally"
          /\ peerRead' = Some(peerClipboard)
          /\ peerReadFrom' = peerClipWriter
          /\ UNCHANGED <<peerBrowser, peerClipboard, peerClipWriter>>
       \/ PeerRaise
    /\ UNCHANGED <<selfButClipboard, clipboard, clipWriter, peerHeadless>>

\* finally: if browser: await browser.close()
PeerFinally ==
    /\ peerPc = "finally"
    /\ peerPc' = "done"
    /\ peerBrowser' = (IF peerBrowser = "Browser" THEN "Closed" ELSE peerBrowser)
    /\ UNCHANGED <<selfButClipboard, clipboard, clipWriter, peerHeadless,
                   peerClipboard, peerClipWriter, peerRead, peerReadFrom>>

\* two calls of run_app: both with headless=True and timeout=30000
InitPair ==
    /\ InitLocals
    /\ request = RunAppRequest
    /\ clipboard \in StaleTexts
    /\ probe = FALSE
    /\ peerPc = "launch"
    /\ peerHeadless = RunAppRequest.headless
    /\ peerBrowser = "None"
    /\ peerClipboard \in StaleTexts
    /\ peerRead = None
    /\ peerClipWriter = "before"
    /\ peerReadFrom = "none"

NextPair ==
    \/ Next
    \/ PeerLaunch \/ PeerClearClipboard \/ PeerCopyClick
    \/ PeerReadClipboard \/ PeerFinally

SpecPair == InitPair /\ [][NextPair]_vars

\* steps whose end the code or the local runtime bounds: awaits that carry a
\* timeout (launch, goto, the locator actions and waits, wait_for_load_state),
\* fixed delays (asyncio.sleep, wait_for_timeout), the start and stop of the
\* driver and of the browser, and the steps that do not await
BoundedSteps ==
    \/ Start \/ Launch \/ NewContext \/ NewPage \/ Navigate
    \/ TextboxClick \/ TextboxFill \/ TextboxPress \/ GraceDelay
    \/ WaitCopyButton \/ WaitNetworkIdle \/ SettleDelay
    \/ CopyClick \/ ClipboardWait \/ Construct
    \/ PlaywrightExit \/ Handler \/ Finally

\* fair scheduling: a bounded step that stays possible is taken; the awaits
\* without a timeout that wait for the page (page.evaluate,
\* query_selector_all, inner_html) end only when the page answers
FairSpec == Init /\ [][Next]_vars /\ WF_vars(BoundedSteps)

\* ----------------------------------------------------------------- types
TypeOK ==
    /\ pc \in BodyAwaits \cup {"construct", "pw_exit", "handler", "finally", "done"}
    /\ request \in Requests
    /\ browser \in {"None", "Browser"}
    /\ closeCalls \in 0..1
    /\ outcome \in {"running", "returned", "raised"}
    /\ (outcome = "running") = (pc # "done")
    /\ message_count \in 0..(MaxElems + 1)
    /\ clipWriter \in {"before", "clear", "click", "peer"}
    /\ readFrom \in {"none", "before", "clear", "click", "peer"}
    /\ peerPc \in {"absent", "launch", "clip_clear", "copy_click", "clip_read",
                  "finally", "done"}
    /\ peerHeadless \in BOOLEAN
    /\ peerBrowser \in {"None", "Browser", "Closed"}
    /\ peerClipboard \in StaleTexts \cup PeerAnswers
    /\ peerClipWriter \in {"before", "clear", "click", "other"}
    /\ peerReadFrom \in {"none", "before", "clear", "click", "other"}
    /\ peerRead \in {None} \cup {Some(t) : t \in Texts}

\* ---------------------------------------------------------------- claims
\* the step was started in this invocation
Did(step) == \E i \in 1..Len(trace) : trace[i] = step

\* the clipboard was written, the Copy button clicked or the clipboard read
ClipboardTouched == Did("clip_clear") \/ Did("copy_click") \/ Did("clip_read")

SuccessShaped(r) ==
    /\ DOMAIN r.metadata = {"url", "headless", "timeout"}
    /\ r.metadata.headless = request.headless
    /\ r.metadata.timeout = request.timeout

FailureShaped(r) ==
    /\ DOMAIN r.metadata = {"error", "error_type"}
    /\ r.metadata.error = failure.msg
    /\ r.metadata.error_type = failure.type
    /\ r.raw_html = None
    /\ r.message_count = 1
    /\ r.text = ErrorPrefix \o failure.msg

\* C1: an invocation that is not cancelled never ends by raising: whatever
\* step fails, it ends by returning a result.
NeverRaises == (pc = "done" /\ ~cancelled) => outcome = "returned"

\* C2: the text of every returned result is a non-empty string.
TextNonEmpty == outcome = "returned" => result.text # <<>>

\* C3: when the invocation has ended and chromium.launch had returned a
\* browser, browser.close() was called (once), on every exit path:
\* return, exception and cancellation.
BrowserClosedOnEveryExit ==
    (pc = "done" /\ browser = "Browser") => closeCalls = 1

\* C3 witness: the task was cancelled while waiting for the Copy button, and
\* the browser was closed all the same.
CancelledWaitClosed ==
    /\ pc = "done" /\ cancelled /\ failedAt = "wait_copy"
    /\ browser = "Browser" /\ closeCalls = 1

\* C4: if the clipboard read returned non-empty content, the result's text
\* is that content stripped and the fallback scan did not run.
ClipboardTextIsResult ==
    (outcome = "returned" /\ clipRead # None /\ clipRead[1] # <<>>)
        => (result.text = Strip(clipRead[1]) /\ ~fallbackRan)

\* C5: if the clipboard read returned empty content, the fallback scan ran
\* and its output, stripped, is the result's text, whatever the scan found
\* (stated for the invocations that went on to build their result, that is,
\* in which the scan and the page queries after it raised nothing).
FallbackTextIsResult ==
    (outcome = "returned" /\ clipRead = Some(<<>>) /\ Did("construct"))
        => /\ fallbackRan
           /\ response_text # None
           /\ result.text = Strip(response_text[1])

\* C6: message_count of every returned result is at least 1.
MessageCountAtLeastOne == outcome = "returned" => result.message_count >= 1

\* C6 witness: a success result of a page on which no element was found.
ZeroFoundCountsOne ==
    /\ outcome = "returned" /\ failedAt = "none" /\ likeCount = 0
    /\ result.message_count = 1

\* the wait for the textbox or for the Copy button timed out
LocatorTimedOut ==
    failedAt \in {"click", "wait_copy"} /\ failure.type = "TimeoutError"

\* C7: after a timeout of the wait for the textbox or for the Copy button,
\* no clipboard operation and no copy click happens, and the result that
\* the invocation returns has the error prefix and an error_type naming the
\* timeout class.
LocatorTimeoutFails ==
    LocatorTimedOut =>
        /\ ~ClipboardTouched
        /\ clipRead = None
        /\ outcome = "returned" =>
              /\ StartsWith(result.text, ErrorScraping)
              /\ "error_type" \in DOMAIN result.metadata
              /\ result.metadata.error_type = "TimeoutError"

\* C7 witness: the Copy button did not show within the timeout of 30000 ms
\* and the invocation returned.
CopyButtonTimeoutReturned ==
    /\ outcome = "returned" /\ failedAt = "wait_copy"
    /\ failure.type = "TimeoutError" /\ request.timeout = 30000

\* C8: every returned result has the success shape (when no step raised)
\* or the failure shape (when a step raised), never a mix of the two.
TwoShapes ==
    outcome = "returned" =>
        IF failedAt = "none" THEN SuccessShaped(result)
        ELSE FailureShaped(result)

\* C8 witness: a failure result of an invocation that had already captured
\* raw markup, and a request with a timeout other than the default.
LateFailureShaped ==
    /\ outcome = "returned" /\ failedAt = "count" /\ raw_html # None
    /\ request.timeout = 1000 /\ "error" \in DOMAIN result.metadata

\* C9: a timeout of the secondary network-idle wait raises nothing and leads
\* to the settle delay; the settle delay leads to the clipboard extraction;
\* a result returned afterwards was decided by a later step.
SecondaryTimeoutNonFatal ==
    /\ [][(pc = "wait_idle" /\ idleTimedOut')
            => (pc' = "settle" /\ exc' = NoExc /\ failedAt' = "none")]_vars
    /\ [][(pc = "settle" /\ cancelled' = cancelled)
            => (pc' = "clip_clear" /\ exc' = NoExc)]_vars
    /\ []((idleTimedOut /\ outcome = "returned")
            => (Did("settle") /\ Did("clip_clear") /\ failedAt # "wait_idle"))

\* C9 witness: the secondary wait timed out and the invocation returned the
\* text it copied.
IdleTimeoutThenSuccess ==
    /\ outcome = "returned" /\ idleTimedOut /\ failedAt = "none"
    /\ result.text # <<>> /\ result.text = Strip(clipRead[1])

\* a clipboard write or read raised an error
ClipboardFailed ==
    failedAt \in {"clip_clear", "clip_read"} /\ failure.type = "Error"

\* C10: a clipboard failure triggers the fallback scan, and the result is
\* failure-shaped only if the fallback yielded no content either.
ClipboardFailureFallsBack ==
    (pc = "done" /\ ClipboardFailed) => (fallbackRan /\ response_text = None)

\* C11 (as stated): once the Copy button was seen visible, no timeout of a
\* later step makes the invocation return a failure-shaped result.
NoLateTimeoutFailure ==
    (outcome = "returned" /\ Did("wait_idle")) => failure.type # "TimeoutError"

\* C11 (amended): once the Copy button was seen visible, the only timeout
\* that makes the invocation return a failure-shaped result is the timeout
\* of the copy click; the timeout of the secondary wait is absorbed.
LateTimeoutOnlyCopyClick ==
    (outcome = "returned" /\ Did("wait_idle") /\ failure.type = "TimeoutError")
        => (failedAt = "copy_click" /\ FailureShaped(result))

\* C11 witness: the secondary wait timed out without harm, then the click on
\* the Copy button timed out and the invocation returned a failure result.
CopyClickTimeoutReturned ==
    /\ outcome = "returned" /\ idleTimedOut /\ failedAt = "copy_click"
    /\ failure.type = "TimeoutError"
    /\ result.metadata.error_type = "TimeoutError"

\* C12: when the message-count query fails after the answer text was
\* extracted, the invocation returns a success-shaped result with that
\* text and the default message_count.
CountFailureNonFatal ==
    (outcome = "returned" /\ failedAt = "count" /\ response_text # None)
        => /\ SuccessShaped(result)
           /\ result.text = Strip(response_text[1])
           /\ result.message_count = DefaultMessageCount

\* the raw-markup query failed, or inner_html() of the last element failed
RawCaptureFailed ==
    \/ Did("raw_query") /\ likeCount = -1 /\ failedAt # "raw_query"
    \/ Did("raw_inner") /\ raw_html = None /\ failedAt # "raw_inner"

\* C13: a failure of the raw-markup capture raises nothing and changes
\* neither the text nor the flow: the count step follows; a result returned
\* after a failed capture has no raw_html and is failure-shaped only through
\* a later step; with no later failure it is success-shaped with the
\* extracted text and the counted message_count.
RawCaptureFailureSwallowed ==
    /\ [][(pc \in {"raw_query", "raw_inner"} /\ cancelled' = cancelled)
            => /\ exc' = NoExc /\ failedAt' = "none"
               /\ pc' \in {"raw_inner", "count"}
               /\ response_text' = response_text]_vars
    /\ []((outcome = "returned" /\ RawCaptureFailed)
            => /\ result.raw_html = None
               /\ failedAt \in {"none", "count", "construct"}
               /\ failedAt = "none" =>
                     /\ SuccessShaped(result)
                     /\ result.text = Strip(response_text[1])
                     /\ result.message_count = message_count)

\* C13 witness: inner_html() failed and the invocation returned the text.
RawInnerFailedSuccess ==
    /\ outcome = "returned" /\ failedAt = "none"
    /\ Did("raw_inner") /\ raw_html = None
    /\ result.raw_html = None /\ result.text # <<>>

\* the steps in the order of the program text
StepOrder ==
    <<"start", "launch", "new_context", "new_page", "goto", "click", "fill",
      "press", "grace", "wait_copy", "wait_idle", "settle", "clip_clear",
      "copy_click", "clip_wait", "clip_read", "fallback", "raw_query",
      "raw_inner", "count", "construct", "pw_exit", "handler", "finally">>

Steps == {StepOrder[i] : i \in 1..Len(StepOrder)}

\* position of a step in the program text
Pos == [s \in Steps |-> CHOOSE i \in 1..Len(StepOrder) : StepOrder[i] = s]

\* steps that run on some paths only, and the steps after the body
ConditionalSteps == {"settle", "fallback", "raw_inner"}

TeardownSteps == {"pw_exit", "handler", "finally"}

\* C15: the steps of an invocation are started in the order of the phases,
\* each at most once, beginning with the first; between a step and the body
\* step started next no unconditional step is left out (so extraction comes
\* after the wait for the Copy button);
\* the settle delay runs exactly after a timeout of the secondary wait and
\* the fallback exactly after an empty read; and once a step has raised,
\* only the steps that leave the function follow.
PhasesInOrder ==
    /\ trace # <<>> => trace[1] = "start"
    /\ \A i \in 1..(Len(trace) - 1) :
          /\ Pos[trace[i]] < Pos[trace[i + 1]]
          /\ trace[i + 1] \notin TeardownSteps =>
                \A k \in (Pos[trace[i]] + 1)..(Pos[trace[i + 1]] - 1) :
                   StepOrder[k] \in ConditionalSteps
    /\ Did("settle") => idleTimedOut
    /\ (Did("clip_clear") /\ idleTimedOut) => Did("settle")
    /\ Did("fallback") => clipRead = Some(<<>>)
    /\ (Did("raw_query") /\ clipRead = Some(<<>>)) => Did("fallback")
    /\ failedAt # "none" => pc \in TeardownSteps \cup {"done"}
    /\ failedAt \in BodyAwaits \cup {"construct"} =>
          \A i \in 1..Len(trace) :
             trace[i] \in TeardownSteps \/ Pos[trace[i]] <= Pos[failedAt]

\* C15 witness: an invocation that went through every phase and returned,
\* by way of the settle delay and of the fallback.
AllPhasesDone ==
    /\ outcome = "returned" /\ failedAt = "none"
    /\ Did("settle") /\ Did("fallback") /\ Did("raw_inner")
    /\ Len(trace) = 23

\* C14: the clipboard is cleared before the copy click and read only after
\* the copy click and the 300 ms wait; from the clear on, the clipboard holds
\* nothing but what the own clear and the own copy click wrote, so a
\* non-empty text read from it was written by the click after the clear, and
\* what lay on the clipboard before the call never becomes the result's text.
StaleNeverRead ==
    /\ Did("copy_click") => Did("clip_clear")
    /\ Did("clip_read") => Did("copy_click") /\ Did("clip_wait")
    /\ clipRead # None => pc # "clip_read" /\ Did("clip_read")
    /\ pc = "copy_click" => clipboard = <<>> /\ clipWriter = "clear"
    /\ (Did("copy_click") /\ pc # "copy_click") =>
          /\ clipWriter \in {"clear", "click"}
          /\ clipWriter = "clear" => clipboard = <<>>
    /\ clipRead # None => readFrom \in {"clear", "click"}
    /\ (clipRead # None /\ clipRead[1] # <<>>) => readFrom = "click"
    /\ (outcome = "returned" /\ SuccessShaped(result) /\ ~fallbackRan) =>
          /\ readFrom = "click"
          /\ result.text = Strip(clipRead[1])

\* C14 witness: the copy click wrote an answer after the clear, the read
\* took it, and the returned text is that answer.
CopiedAfterClearReturned ==
    /\ outcome = "returned" /\ SuccessShaped(result)
    /\ Did("clip_clear") /\ ~fallbackRan
    /\ readFrom = "click"
    /\ clipRead = Some(<<"a", " ">>)
    /\ result.text = <<"a">>

\* the fallback script ran to its end on a recorded page that has a Copy
\* button
ScannedWithButton ==
    /\ probe /\ Did("fallback") /\ pc # "fallback" /\ failedAt # "fallback"
    /\ dom.hasButton

\* C16 (as stated): the fallback's container is the nearest ancestor of the
\* Copy button (the parent or above) whose class matches, and without such
\* an ancestor the element two levels above the button's parent.
ContainerAsStated ==
    ScannedWithButton =>
       LET n == Len(dom.cls)
           anc == {i \in 2..n : dom.cls[i]}
       IN  IF anc # {}
           THEN container \in anc /\ \A j \in anc : container <= j
           ELSE container = (IF n >= 4 THEN 4 ELSE 0)

\* C16 (amended): the fallback's container is the nearest element, counted
\* from the Copy button itself upwards, whose class matches; when neither
\* the button nor any ancestor matches, it is the button's grandparent (the
\* parent of its parent); the text is taken from that element.
ContainerIsClosestOrGrandparent ==
    ScannedWithButton =>
       LET n == Len(dom.cls)
           hit == {i \in 1..n : dom.cls[i]}
       IN  /\ closestHit = (hit # {})
           /\ IF hit # {}
              THEN container \in hit /\ \A j \in hit : container <= j
              ELSE container = 3
           /\ containerText # None
           /\ container = 1 => containerText = Some(Copy)

\* C16 witness: no class matched on a button four levels deep, the
\* grandparent's text was taken and the invocation returned it.
GrandparentTextReturned ==
    /\ ScannedWithButton
    /\ Len(dom.cls) = 4 /\ \A i \in 1..4 : ~dom.cls[i]
    /\ container = 3
    /\ containerText = Some(<<"a">> \o Copy)
    /\ outcome = "returned" /\ SuccessShaped(result)
    /\ result.text = <<"a">>

\* the text before the trailing Copy label of a container text
AnswerBeforeLabel(t) ==
    LET r == RStrip(t) IN SubSeq(r, 1, Len(r) - Len(Copy))

\* C17: when the read was empty and the fallback took a container whose
\* text is an answer A followed by the Copy label, a returned result has
\* the text A trimmed, whatever A is (also when A contains "Copy").
FallbackKeepsAnswer ==
    ( /\ ScannedWithButton
      /\ clipRead = Some(<<>>)
      /\ containerText # None
      /\ outcome = "returned" /\ SuccessShaped(result) ) =>
       result.text = Strip(AnswerBeforeLabel(containerText[1]))

\* C18: on the success path, when the raw-markup query saw the message-like
\* elements (class matching message, response or assistant), message_count
\* is their number when that is at least 1 and the default 1 when it is 0;
\* and raw_html is present only if the count query found an element.
MessageCountIsLikeCount ==
    ( /\ outcome = "returned" /\ SuccessShaped(result)
      /\ likeCount >= 0 ) =>
       /\ result.message_count = (IF likeCount = 0 THEN 1 ELSE likeCount)
       /\ result.raw_html # None => msgFound >= 1

\* C19: under fair scheduling an invocation that is not cancelled eventually
\* ends with a returned result; it does not stay forever in any phase.
EventuallyReturned == ([]~cancelled) => <>(pc = "done" /\ outcome = "returned")

\* C20: two interleaved invocations, as run_eval starts them, share no
\* mutable state: what each reads from the clipboard was written in its own
\* session (by its clear or its copy click), never by the other invocation
\* and never before the call; a returned text taken from the clipboard was
\* copied by the own click; and a browser is closed by its own invocation
\* only, at that invocation's end.
NoInterference ==
    /\ clipWriter # "peer"
    /\ peerClipWriter # "other"
    /\ clipRead # None => readFrom \in {"clear", "click"}
    /\ peerRead # None =>
          /\ peerReadFrom \in {"clear", "click"}
          /\ peerReadFrom = "clear" => peerRead = Some(<<>>)
          /\ peerReadFrom = "click" => peerRead[1] \in PeerAnswers
    /\ (outcome = "returned" /\ SuccessShaped(result) /\ ~fallbackRan) =>
          /\ readFrom = "click"
          /\ result.text = Strip(clipRead[1])
    /\ peerBrowser = "Closed" => peerPc = "done"
    /\ peerBrowser = "Browser" => peerPc \notin {"launch", "done"}
    /\ (closeCalls = 1) = (pc = "done" /\ browser = "Browser")

\* C20 witness: both invocations copied and read while the other was under
\* way; the first has returned its own answer and closed its browser, the
\* second has read its own, different answer and its browser is still open.
OwnAnswersInterleaved ==
    /\ pc = "done" /\ outcome = "returned" /\ SuccessShaped(result)
    /\ closeCalls = 1
    /\ readFrom = "click" /\ result.text = <<"a">>
    /\ peerPc = "finally" /\ peerBrowser = "Browser"
    /\ peerReadFrom = "click" /\ peerRead = Some(<<"p", "y">>)

====
